---- MODULE Spec2Model ----
(***************************************************************************)
(* Model of the monitoring-sender plugin (src/src/lib.rs): a stereo input  *)
(* is sent to auxiliary stereo outputs, each scaled by its own gain        *)
(* parameter.  The host thread calls initialize, reset and process; the    *)
(* automation/UI thread writes the gain parameters at any time.            *)
(*                                                                         *)
(* Samples and gains are f32 in the source.  The model uses small integers,*)
(* on which f32 multiplication is exact.                                   *)
(***************************************************************************)
EXTENDS Integers, Sequences, FiniteSets, TLC

\* ---------------------------------------------------------------- bounds
\* Longest block (frames of the main buffer) the host hands to process.
MaxFrames == 2
\* Number of parameter writes the automation/UI thread performs in a run.
MaxGainWrites == 1

\* ------------------------------------------------------ program constants
\* aux_output_ports: &[new_nonzero_u32(2); 4]
NumAuxOutputs == 4
\* for send_index in 0..3
SendLoopEnd == 3
\* main_input_channels: NonZeroU32::new(2)
NumChannels == 2
Dests == 0 .. (NumAuxOutputs - 1)
Channels == 1 .. NumChannels

\* Amplitudes the automation thread may publish, other than the default.  The
\* parameter range is [db_to_gain(-144.0), db_to_gain(12.0)] = [0.0, 3.98].
GainVals == {0, 2}

\* util::db_to_gain(0.00), the default of every gain parameter: 10^(0/20).
UnityGain == 1

\* Frames the host may put into the main buffer (left # right, so that a
\* per-channel mix-up shows).
InFrames == {<<1, -1>>, <<2, 0>>}

\* What an auxiliary output buffer holds before the call: anything; here a
\* value per destination and frame that no product of a sample and a gain has.
StaleFrame(d, i) == <<10 * (d + 1) + i, -(10 * (d + 1) + i)>>

ProcessModes == {"Realtime", "Buffered", "Offline"}

\* Configurations the host may negotiate.  An Option is the empty tuple (None)
\* or a one-element tuple (Some).
HostConfigs ==
    [sample_rate : {48000}, min_buffer_size : {<<64>>},
     max_buffer_size : {512}, process_mode : ProcessModes]

\* BufferConfig of MonitoringSender::default.
DefaultBufferConfig ==
    [sample_rate |-> 1, min_buffer_size |-> <<>>,
     max_buffer_size |-> 0, process_mode |-> "Realtime"]

\* MonitoringSenderParams::default: the four gains at db_to_gain(0.00).
DefaultParams ==
    [main_gain |-> UnityGain, ax_gain |-> UnityGain,
     sb_gain |-> UnityGain, vk_gain |-> UnityGain]

\* The parameter of destination d, in the order of aux_outputs' names.
ParamName(d) ==
    CASE d = 0 -> "main_gain"
      [] d = 1 -> "ax_gain"
      [] d = 2 -> "sb_gain"
      [] d = 3 -> "vk_gain"

VARIABLES
    params,         \* MonitoringSender.params: the four FloatParam values
    buffer_config,  \* MonitoringSender.buffer_config
    pc,             \* where the host's process call is: idle, loop, returned, panicked
    buffer,         \* process's `buffer`: the main in/out block
    aux,            \* process's `aux.outputs`: destination -> block
    gains,          \* process's local `gains`, a tuple indexed send_index + 1
    send_index,     \* the outer loop variable
    frame,          \* frames the inner iterator has consumed
    status,         \* what process returned: "None" until it returns
    entered,        \* whether the call passed the Offline check
    buffer0,        \* history: `buffer` as the host handed it in
    aux0,           \* history: `aux.outputs` as the host handed them in
    params0,        \* history: the parameters when the call started
    last_init,      \* history: <<configuration of the latest initialize>>, or <<>>
    last_call,      \* the latest call and what it returned to its caller
    writes          \* parameter writes so far

vars == <<params, buffer_config, pc, buffer, aux, gains, send_index, frame,
          status, entered, buffer0, aux0, params0, last_init, last_call, writes>>

\* The variables of one process call.
call_vars == <<pc, buffer, aux, gains, send_index, frame, status, entered,
               buffer0, aux0, params0>>

NoGains == <<>>
NoAux == [d \in Dests |-> <<>>]
NoCall == [call |-> "new", value |-> "None"]

Init ==
    /\ params = DefaultParams
    /\ buffer_config = DefaultBufferConfig
    /\ pc = "idle"
    /\ buffer = <<>>
    /\ aux = NoAux
    /\ gains = NoGains
    /\ send_index = 0
    /\ frame = 0
    /\ status = "None"
    /\ entered = FALSE
    /\ buffer0 = <<>>
    /\ aux0 = NoAux
    /\ params0 = DefaultParams
    /\ last_init = <<>>
    /\ last_call = NoCall
    /\ writes = 0

\* initialize that keeps the mode it had (a partial update of the context).
initialize_keeps_mode(config) ==
    /\ pc = "idle"
    /\ buffer_config' = [config EXCEPT !.process_mode = buffer_config.process_mode]
    /\ last_init' = <<config>>
    /\ last_call' = [call |-> "initialize", value |-> "true"]
    /\ UNCHANGED <<params, writes>>
    /\ UNCHANGED call_vars

\* fn initialize: store the configuration, return true.
initialize(config) ==
    /\ pc = "idle"
    /\ buffer_config' = config
    /\ last_init' = <<config>>
    /\ last_call' = [call |-> "initialize", value |-> "true"]
    /\ UNCHANGED <<params, writes>>
    /\ UNCHANGED call_vars

\* reset that puts the configuration back to the constructor's.
reset_to_defaults ==
    /\ pc = "idle"
    /\ buffer_config' = DefaultBufferConfig
    /\ last_call' = [call |-> "reset", value |-> "None"]
    /\ UNCHANGED <<params, last_init, writes>>
    /\ UNCHANGED call_vars

\* fn reset: empty body.
reset ==
    /\ pc = "idle"
    /\ last_call' = [call |-> "reset", value |-> "None"]
    /\ UNCHANGED <<params, buffer_config, last_init, writes>>
    /\ UNCHANGED call_vars


\* ------------------------------------------------------------ process
\* Blocks the host may hand in as the main buffer: 0 .. MaxFrames frames.
Blocks == UNION {[1 .. n -> InFrames] : n \in 0 .. MaxFrames}

\* Frame counts of the four auxiliary buffers for a main block of n frames:
\* all equal to n (the layout respected), or one of them a frame short or a
\* frame long.
AuxLens(n) ==
    {lens \in [Dests -> {k \in {n - 1, n, n + 1} : k >= 0}] :
        Cardinality({d \in Dests : lens[d] # n}) <= 1}

\* The auxiliary buffers as the host hands them in.
HostAux(lens) == [d \in Dests |-> [i \in 1 .. lens[d] |-> StaleFrame(d, i)]]

\* The Offline check with the wrong mode compared.
IsBouncing_wrong_mode(config) == config.process_mode = "Realtime"

\* if self.buffer_config.process_mode == ProcessMode::Offline
IsBouncing(config) == config.process_mode = "Offline"

\* let gains = [main_gain.value(), ax_gain.value(), sb_gain.value(), vk_gain.value()]
Snapshot(p) == <<p.main_gain, p.ax_gain, p.sb_gain, p.vk_gain>>

\* The sends the outer loop visits: for send_index in 0..3
SendRange == 0 .. (SendLoopEnd - 1)

\* An output iterator that ends one frame early.
HasNext_off_by_one(out, consumed) == consumed + 1 < Len(out)

\* send_1_buffer.next(): whether the output iterator still has a frame after
\* `consumed` of them were taken.
HasNext(out, consumed) == consumed < Len(out)

\* *ch_out = *ch_in * gains[send_index], over the zipped channels of a frame.
ScaleFrame(in1, out1, g) ==
    [ch \in 1 .. Len(out1) |-> IF ch <= Len(in1) THEN in1[ch] * g ELSE out1[ch]]

\* Entry of process up to the loop: the Offline check and the gain snapshot.
process_enter(block, outputs) ==
    /\ pc = "idle"
    /\ buffer' = block
    /\ aux' = outputs
    /\ buffer0' = block
    /\ aux0' = outputs
    /\ params0' = params
    /\ send_index' = 0
    /\ frame' = 0
    /\ IF IsBouncing(buffer_config)
       THEN /\ pc' = "returned"
            /\ status' = "Normal"
            /\ entered' = FALSE
            /\ gains' = NoGains
            /\ last_call' = [call |-> "process", value |-> "Normal"]
       ELSE /\ pc' = "loop"
            /\ status' = "None"
            /\ entered' = TRUE
            /\ gains' = Snapshot(params)
            /\ last_call' = [call |-> "process", value |-> "None"]
    /\ UNCHANGED <<params, buffer_config, last_init, writes>>

\* process_frame with the input frame scaled in place as well (a bug that
\* would attenuate the main path).
process_frame_in_place ==
    /\ pc = "loop"
    /\ send_index \in SendRange
    /\ \/ send_index \notin DOMAIN aux
       \/ frame < Len(buffer)
    /\ IF send_index \notin DOMAIN aux
       THEN /\ pc' = "panicked"
            /\ UNCHANGED <<aux, frame, buffer>>
       ELSE IF ~HasNext(aux[send_index], frame)
       THEN /\ pc' = "panicked"
            /\ UNCHANGED <<aux, frame, buffer>>
       ELSE /\ pc' = "loop"
            /\ aux' = [aux EXCEPT ![send_index][frame + 1] =
                          ScaleFrame(buffer[frame + 1], @, gains[send_index + 1])]
            /\ buffer' = [buffer EXCEPT ![frame + 1] =
                          ScaleFrame(@, @, gains[send_index + 1])]
            /\ frame' = frame + 1
    /\ last_call' = [call |-> "process", value |-> "None"]
    /\ UNCHANGED <<params, buffer_config, gains, send_index, status,
                   entered, buffer0, aux0, params0, last_init, writes>>

\* process_frame with the two iterators zipped: a short output buffer ends
\* the send's loop instead of panicking (truncation to the shorter length).
process_frame_truncating ==
    /\ pc = "loop"
    /\ send_index \in SendRange
    /\ \/ send_index \notin DOMAIN aux
       \/ frame < Len(buffer)
    /\ IF send_index \notin DOMAIN aux
       THEN /\ pc' = "panicked"
            /\ UNCHANGED <<aux, frame>>
       ELSE IF ~HasNext(aux[send_index], frame)
       THEN /\ pc' = "loop"
            /\ frame' = Len(buffer)
            /\ UNCHANGED aux
       ELSE /\ pc' = "loop"
            /\ aux' = [aux EXCEPT ![send_index][frame + 1] =
                          ScaleFrame(buffer[frame + 1], @, gains[send_index + 1])]
            /\ frame' = frame + 1
    /\ last_call' = [call |-> "process", value |-> "None"]
    /\ UNCHANGED <<params, buffer_config, buffer, gains, send_index, status,
                   entered, buffer0, aux0, params0, last_init, writes>>

\* One pass of the inner loop body: the next input frame paired with
\* send_1_buffer.next(); unwrap of None panics, otherwise the frame is written.
\* aux.outputs[send_index] panics when the index is out of bounds.
process_frame ==
    /\ pc = "loop"
    /\ send_index \in SendRange
    /\ \/ send_index \notin DOMAIN aux
       \/ frame < Len(buffer)
    /\ IF send_index \notin DOMAIN aux
       THEN /\ pc' = "panicked"
            /\ UNCHANGED <<aux, frame>>
       ELSE IF ~HasNext(aux[send_index], frame)
       THEN /\ pc' = "panicked"
            /\ UNCHANGED <<aux, frame>>
       ELSE /\ pc' = "loop"
            /\ aux' = [aux EXCEPT ![send_index][frame + 1] =
                          ScaleFrame(buffer[frame + 1], @, gains[send_index + 1])]
            /\ frame' = frame + 1
    /\ last_call' = [call |-> "process", value |-> "None"]
    /\ UNCHANGED <<params, buffer_config, buffer, gains, send_index, status,
                   entered, buffer0, aux0, params0, last_init, writes>>

\* The input iterator is exhausted: the outer loop goes to the next send.
next_send ==
    /\ pc = "loop"
    /\ send_index \in SendRange
    /\ send_index \in DOMAIN aux
    /\ frame = Len(buffer)
    /\ send_index' = send_index + 1
    /\ frame' = 0
    /\ last_call' = [call |-> "process", value |-> "None"]
    /\ UNCHANGED <<params, buffer_config, pc, buffer, aux, gains, status,
                   entered, buffer0, aux0, params0, last_init, writes>>

\* The outer loop is over: ProcessStatus::Normal.
process_return ==
    /\ pc = "loop"
    /\ send_index \notin SendRange
    /\ pc' = "returned"
    /\ status' = "Normal"
    /\ last_call' = [call |-> "process", value |-> "Normal"]
    /\ UNCHANGED <<params, buffer_config, buffer, aux, gains, send_index, frame,
                   entered, buffer0, aux0, params0, last_init, writes>>

\* The call is over and the host has its buffers back: the borrows of
\* `buffer` and `aux` end and process's locals are gone.
release ==
    /\ pc = "returned"
    /\ pc' = "idle"
    /\ buffer' = <<>>
    /\ aux' = NoAux
    /\ gains' = NoGains
    /\ send_index' = 0
    /\ frame' = 0
    /\ status' = "None"
    /\ entered' = FALSE
    /\ buffer0' = <<>>
    /\ aux0' = NoAux
    /\ params0' = params
    /\ UNCHANGED <<params, buffer_config, last_init, last_call, writes>>

\* ------------------------------------------- the automation/UI thread
\* The host publishes a new amplitude for one gain parameter (an atomic
\* store of one value), at any time, also while process runs.
set_gain(d, g) ==
    /\ pc # "panicked"
    /\ writes < MaxGainWrites
    /\ params' = [params EXCEPT ![ParamName(d)] = g]
    /\ writes' = writes + 1
    /\ last_call' = [call |-> "set_gain", value |-> "None"]
    /\ UNCHANGED <<buffer_config, last_init>>
    /\ UNCHANGED call_vars

\* Texts the UI may hand to a gain parameter's text entry, as tuples of
\* characters: decibel values with and without the unit, and texts that are
\* no number.
Texts ==
    { <<"0", " ", "d", "B">>, <<"-", "1", "4", "4">>,
      <<"a", "b", "c">>, <<"-">>, <<>> }

Digits == {"0", "1", "2", "3", "4", "5", "6", "7", "8", "9"}

DigitValue(c) ==
    CASE c = "0" -> 0 [] c = "1" -> 1 [] c = "2" -> 2 [] c = "3" -> 3
      [] c = "4" -> 4 [] c = "5" -> 5 [] c = "6" -> 6 [] c = "7" -> 7
      [] c = "8" -> 8 [] c = "9" -> 9

\* The text without its trailing unit characters.
RECURSIVE TrimUnit(_)
TrimUnit(text) ==
    IF text # <<>> /\ text[Len(text)] \in {" ", "d", "D", "b", "B"}
    THEN TrimUnit(SubSeq(text, 1, Len(text) - 1))
    ELSE text

\* The value of a non-empty run of digits.
RECURSIVE DigitsValue(_)
DigitsValue(ds) ==
    IF Len(ds) = 1 THEN DigitValue(ds[1])
    ELSE 10 * DigitsValue(SubSeq(ds, 1, Len(ds) - 1)) + DigitValue(ds[Len(ds)])

\* Parse of a decimal integer with an optional sign: <<n>>, or <<>> when the
\* text is no number.
ParseNumber(text) ==
    LET neg == text # <<>> /\ text[1] = "-"
        ds == IF neg THEN Tail(text) ELSE text
    IN IF ds = <<>> \/ \E i \in 1 .. Len(ds) : ds[i] \notin Digits
       THEN <<>>
       ELSE <<(IF neg THEN -1 ELSE 1) * DigitsValue(ds)>>

\* Decibels to amplitude, 10^(db/20), and 0 at or below -100 dB; given here
\* for the decibel values whose amplitude is an integer.
db_to_gain(db) ==
    CASE db <= -100 -> 0
      [] db = 0 -> 1

\* Text to amplitude with a parse failure read as silence.
string_to_value_zero_on_error(text) ==
    LET n == ParseNumber(TrimUnit(text))
    IN IF n = <<>> THEN <<0>> ELSE <<db_to_gain(n[1])>>

\* Text to amplitude: <<amplitude>>, or <<>> when the text does not parse.
string_to_value(text) ==
    LET n == ParseNumber(TrimUnit(text))
    IN IF n = <<>> THEN <<>> ELSE <<db_to_gain(n[1])>>

\* Text entry for the gain of destination d: a text that does not parse is
\* rejected with InvalidInput and the value kept; otherwise the parsed
\* amplitude is stored.
text_entry(d, text) ==
    /\ pc # "panicked"
    /\ LET v == string_to_value(text)
       IN IF v = <<>>
          THEN /\ last_call' = [call |-> "text_entry", value |-> "InvalidInput"]
               /\ UNCHANGED <<params, writes>>
          ELSE /\ writes < MaxGainWrites
               /\ params' = [params EXCEPT ![ParamName(d)] = v[1]]
               /\ writes' = writes + 1
               /\ last_call' = [call |-> "text_entry", value |-> "Ok"]
    /\ UNCHANGED <<buffer_config, last_init>>
    /\ UNCHANGED call_vars

\* The host thread and the automation thread.
Next ==
    \/ \E config \in HostConfigs : initialize(config)
    \/ reset
    \/ \E block \in Blocks : \E lens \in AuxLens(Len(block)) :
          process_enter(block, HostAux(lens))
    \/ process_frame
    \/ next_send
    \/ process_return
    \/ release
    \/ \E d \in Dests : \E g \in GainVals : set_gain(d, g)

Spec == Init /\ [][Next]_vars

\* The host thread, with buffers that respect the layout, and the UI's
\* text entry.
NextText ==
    \/ \E config \in HostConfigs : initialize(config)
    \/ reset
    \/ \E block \in Blocks :
          process_enter(block, HostAux([d \in Dests |-> Len(block)]))
    \/ process_frame
    \/ next_send
    \/ process_return
    \/ release
    \/ \E d \in Dests : \E text \in Texts : text_entry(d, text)

SpecText == Init /\ [][NextText]_vars

\* ================================================================ claims
\* The gain of destination d as it was when the current call started.
GainAtStart(d) == params0[ParamName(d)]

\* A frame with both channels multiplied by the one scalar g.
Scaled(fr, g) == <<fr[1] * g, fr[2] * g>>

\* The host respected the layout: all four auxiliary buffers are as long as
\* the main buffer.
Matched == \A d \in Dests : Len(aux0[d]) = Len(buffer0)

\* The call passed the mode check with the stored mode Realtime.
RealtimeCall == pc # "idle" /\ entered /\ buffer_config.process_mode = "Realtime"

\* Frame i of destination d has been through the loop body.
Processed(d, i) ==
    \/ pc = "returned" /\ i <= Len(buffer0)
    \/ pc \in {"loop", "panicked"} /\ d < send_index /\ i <= Len(buffer0)
    \/ pc \in {"loop", "panicked"} /\ d = send_index /\ i <= frame

\* C1: after a Realtime process call with buffers of equal length, every
\* frame of every one of the four auxiliary outputs is the input frame times
\* the gain of that destination read for the block, both channels by the
\* same gain.
C1_AllFourSendsScaled ==
    (pc = "returned" /\ RealtimeCall /\ Matched) =>
        \A d \in Dests : \A i \in 1 .. Len(buffer0) :
            aux[d][i] = Scaled(buffer0[i], GainAtStart(d))

\* What the code does for C1: the three sends the loop visits carry the
\* scaled block and every other auxiliary output is as the host handed it in.
VisitedSendsScaled ==
    (pc = "returned" /\ RealtimeCall /\ Matched) =>
        \A d \in Dests :
            IF d \in SendRange
            THEN \A i \in 1 .. Len(buffer0) :
                    aux[d][i] = Scaled(buffer0[i], GainAtStart(d))
            ELSE aux[d] = aux0[d]

\* C2: a process call in Offline mode leaves all four auxiliary output
\* buffers as they were before the call and returns Normal, whatever the
\* input and the gains.
C2_OfflineNoOp ==
    (pc = "returned" /\ buffer_config.process_mode = "Offline") =>
        /\ aux = aux0
        /\ status = "Normal"

C2_Witness ==
    /\ pc = "returned"
    /\ buffer_config.process_mode = "Offline"
    /\ Len(buffer0) = MaxFrames
    /\ params.main_gain # UnityGain

\* C3: a process call never changes the main buffer, in any mode and for
\* any gains: during and after the call it holds what the host handed in.
C3_MainBufferUntouched ==
    pc # "idle" => buffer = buffer0

C3_Witness ==
    /\ pc = "returned"
    /\ entered
    /\ Len(buffer0) = MaxFrames
    /\ params0.main_gain = 2
    /\ aux[0] # aux0[0]

\* C4: every sample a Realtime block has produced is the input times the
\* gain of its destination as it was when the call started, for each of the
\* four gains, whatever the automation thread has written since; on return
\* the whole block of each of the four destinations is so.
C4_BlockUsesSnapshotGains ==
    RealtimeCall =>
        \A d \in Dests : \A i \in 1 .. Len(aux[d]) :
            Processed(d, i) => aux[d][i] = Scaled(buffer0[i], GainAtStart(d))

\* What the code does for C4: the samples of the sends the loop visits use
\* the gains of the call's start, whatever is written meanwhile.
SnapshotStableOnVisitedSends ==
    RealtimeCall =>
        \A d \in SendRange : \A i \in 1 .. Len(aux[d]) :
            Processed(d, i) => aux[d][i] = Scaled(buffer0[i], GainAtStart(d))

\* A gain was written while the block was in the loop.
GainWrittenMidBlock == pc = "loop" /\ frame > 0 /\ params # params0

\* C5: initialize returns true and replaces the whole stored context; once
\* initialize has been called, the stored context is the one of the latest
\* call and process is gated by its mode: Offline returns at once with the
\* outputs untouched, any other mode enters the send loop and, on return,
\* the first send carries the scaled block.
C5_GatedByLatestInitialize ==
    /\ last_call.call = "initialize" => last_call.value = "true"
    /\ last_init # <<>> =>
        /\ buffer_config = last_init[1]
        /\ pc # "idle" => (entered <=> last_init[1].process_mode # "Offline")
        /\ (pc = "returned" /\ last_init[1].process_mode = "Offline") =>
              aux = aux0
        /\ (pc = "returned" /\ last_init[1].process_mode # "Offline") =>
              \A i \in 1 .. Len(buffer0) :
                  i <= Len(aux[0]) =>
                      aux[0][i] = Scaled(buffer0[i], GainAtStart(0))

C5_Witness ==
    /\ last_init # <<>>
    /\ last_init[1].process_mode = "Offline"
    /\ pc = "returned"
    /\ Len(buffer0) = MaxFrames
    /\ writes > 0

\* C6: with buffers that respect the layout (a block of zero frames
\* included) process never panics, can always take its next step until it
\* has returned, and returns Normal; no other status exists.
C6_AlwaysNormal ==
    /\ status \in {"None", "Normal"}
    /\ pc = "returned" => status = "Normal"
    /\ Matched => pc # "panicked"
    /\ (Matched /\ pc = "loop") =>
          ENABLED (process_frame \/ next_send \/ process_return)

C6_Witness ==
    /\ pc = "returned"
    /\ entered
    /\ Matched
    /\ Len(buffer0) = MaxFrames
    /\ status = "Normal"
    /\ params0.sb_gain = 0

\* Texts that are no number.
NotANumber == { <<"a", "b", "c">>, <<"-">>, <<>> }

\* C7: a text entry that is no number is answered with InvalidInput and
\* changes nothing: not the control, not the other three, not the
\* configuration and nothing of a process call, so later outputs are what
\* they would have been without it.
C7_UnparsableTextRejected ==
    [][\A d \in Dests : \A text \in NotANumber :
          text_entry(d, text) =>
              /\ last_call'.value = "InvalidInput"
              /\ UNCHANGED <<params, buffer_config, writes, last_init>>
              /\ UNCHANGED call_vars]_vars

C7_Witness ==
    /\ last_call = [call |-> "text_entry", value |-> "InvalidInput"]
    /\ params.ax_gain = 0
    /\ pc = "loop"
    /\ frame > 0

\* C8: a step of process or of reset leaves the four gains and the stored
\* context as they are, reset leaves everything as it is, only initialize
\* changes the context and only the automation thread changes a gain.
C8_EngineOnlyReadsGains ==
    [][/\ last_call'.call \in {"process", "reset"} =>
              UNCHANGED <<params, buffer_config>>
       /\ last_call'.call = "reset" =>
              /\ UNCHANGED <<params, buffer_config, writes, last_init>>
              /\ UNCHANGED call_vars
       /\ buffer_config' # buffer_config => last_call'.call = "initialize"
       /\ params' # params => last_call'.call = "set_gain"]_vars

C8_Witness ==
    /\ last_call.call = "reset"
    /\ params # DefaultParams
    /\ buffer_config # DefaultBufferConfig

\* C9: a fresh engine has the four gains at unity and the mode Realtime, and
\* a process call before any initialize and any gain write passes the mode
\* check and leaves in each of the four auxiliary outputs a copy of the
\* input block.
C9_FreshEngineCopiesInput ==
    /\ writes = 0 => \A d \in Dests : params[ParamName(d)] = UnityGain
    /\ last_init = <<>> => buffer_config.process_mode = "Realtime"
    /\ (last_init = <<>> /\ writes = 0 /\ pc # "idle") => entered
    /\ (last_init = <<>> /\ writes = 0 /\ pc = "returned" /\ Matched) =>
          \A d \in Dests : aux[d] = buffer0

\* C10: no truncation.  A call that panicked stopped at the first frame the
\* output of the current send lacks, with no status, the earlier sends and
\* the earlier frames of this send written and the later sends untouched; a
\* call never gets past a send whose output is shorter than the main buffer;
\* frames of an output beyond the main buffer's length keep their content,
\* and a call that meets no short output returns Normal.
C10_NoTruncation ==
    /\ \A d \in Dests : Len(aux[d]) = Len(aux0[d])
    /\ pc = "panicked" =>
          /\ status = "None"
          /\ Len(aux0[send_index]) < Len(buffer0)
          /\ frame = Len(aux0[send_index])
          /\ \A d \in Dests : \A i \in 1 .. Len(aux[d]) :
                aux[d][i] = IF Processed(d, i)
                            THEN Scaled(buffer0[i], GainAtStart(d))
                            ELSE aux0[d][i]
          /\ \A d \in Dests : d < send_index => Len(aux0[d]) >= Len(buffer0)
    /\ (pc \in {"loop", "returned"} /\ entered) =>
          \A d \in Dests : d < send_index => Len(aux0[d]) >= Len(buffer0)
    /\ (pc # "idle" /\ entered) =>
          \A d \in Dests : \A i \in 1 .. Len(aux[d]) :
              i > Len(buffer0) => aux[d][i] = aux0[d][i]
    /\ (pc = "returned" /\ entered) => status = "Normal"

C10_Witness ==
    /\ pc = "panicked"
    /\ send_index = 1
    /\ frame = 1
    /\ aux[0] # aux0[0]
    /\ aux[1][1] # aux0[1][1]
====
